---- MODULE Spec2Model ----
(***************************************************************************)
(* Org Requests Dashboard (src/individual_search.py, src/app.py).          *)
(*                                                                         *)
(* Text is modelled as a sequence of one-character strings, so that        *)
(* strip(), lower(), int() and SequenceMatcher are computed character by    *)
(* character.  A nullable text field is a record [isnull, s].              *)
(*                                                                         *)
(* Specifications:                                                         *)
(*   Spec          the search page session (individual_search.py 10-261,   *)
(*                 up to the radio that picks one org of the page)         *)
(*   SpecFetch     fetch_org_candidates applied to drawn stores/queries    *)
(*   SpecPaginate  the pagination block applied to drawn lists and pages   *)
(*   SpecFilter    apply_dropdown_filters applied to drawn request lists   *)
(*   SpecInsights  render_org_insights of app.py on drawn requests/dates   *)
(***************************************************************************)
EXTENDS Integers, Sequences, FiniteSets, TLC

VARIABLES
    \* configuration read at import time
    APP_PASSWORD, sb_configured,
    \* the external store: the orgs table, in the order the store returns rows
    store,
    \* st.session_state of the search page
    authed, org_results, org_page, searched_query,
    \* st.cache_data of fetch_org_candidates
    cache,
    \* what the last script run rendered
    view,
    \* history: how the latest call of fetch_org_candidates ended
    last_fetch,
    \* SpecFetch: argument and outcome of one fetch_org_candidates call
    f_query, f_out,
    \* SpecPaginate: inputs and outcome of one pass over the pagination block
    p_items, p_size, p_req, p_out,
    \* SpecFilter: argument and outcome of one apply_dropdown_filters call
    d, flt,
    \* SpecInsights: inputs and outcome of one render_org_insights call
    data, today, ins

sessionVars  == <<APP_PASSWORD, sb_configured, authed, org_results, org_page,
                  searched_query, cache, view, last_fetch>>
fetchVars    == <<f_query, f_out>>
paginateVars == <<p_items, p_size, p_req, p_out>>
filterVars   == <<d, flt>>
insightsVars == <<data, today, ins>>
vars == <<sessionVars, store, fetchVars, paginateVars, filterVars, insightsVars>>

----------------------------------------------------------------------------
(* Text helpers                                                            *)

Min(a, b) == IF a < b THEN a ELSE b
Max(a, b) == IF a > b THEN a ELSE b

Null     == [isnull |-> TRUE, s |-> <<>>]
Text(s)  == [isnull |-> FALSE, s |-> s]

\* `x or ""` on a nullable text value
OrEmpty(v) == IF v.isnull THEN <<>> ELSE v.s

UpperCase == <<"A", "B", "C", "N">>
LowerCase == <<"a", "b", "c", "n">>

\* str.lower() on one character
LowerChar(c) ==
    IF \E i \in 1..Len(UpperCase) : UpperCase[i] = c
    THEN LowerCase[CHOOSE i \in 1..Len(UpperCase) : UpperCase[i] = c]
    ELSE c

Lower(s) == [i \in 1..Len(s) |-> LowerChar(s[i])]

IsSpace(c) == c = " "

RECURSIVE LStrip(_)
LStrip(s) == IF s # <<>> /\ IsSpace(Head(s)) THEN LStrip(Tail(s)) ELSE s

RECURSIVE RStrip(_)
RStrip(s) ==
    IF s # <<>> /\ IsSpace(s[Len(s)]) THEN RStrip(SubSeq(s, 1, Len(s) - 1)) ELSE s

\* str.strip()
Strip(s) == RStrip(LStrip(s))

Digits == <<"0", "1", "2", "3", "4", "5", "6", "7", "8", "9">>
IsDigit(c) == \E i \in 1..Len(Digits) : Digits[i] = c
DigitVal(c) == (CHOOSE i \in 1..Len(Digits) : Digits[i] = c) - 1

RECURSIVE DigitsVal(_)
DigitsVal(s) ==
    IF s = <<>> THEN 0 ELSE 10 * DigitsVal(SubSeq(s, 1, Len(s) - 1)) + DigitVal(s[Len(s)])

\* the digits of s, its underscores dropped
RECURSIVE DropUnderscores(_)
DropUnderscores(s) ==
    IF s = <<>> THEN <<>>
    ELSE IF Head(s) = "_" THEN DropUnderscores(Tail(s))
    ELSE <<Head(s)>> \o DropUnderscores(Tail(s))

\* int(s): surrounding blanks, an optional sign, then digits, single
\* underscores allowed between them.  ParseInt(s).ok is FALSE where int()
\* raises.
ParseInt(s) ==
    LET t      == Strip(s)
        signed == t # <<>> /\ Head(t) \in {"-", "+"}
        body   == IF signed THEN Tail(t) ELSE t
        ok     == /\ body # <<>>
                  /\ IsDigit(body[1]) /\ IsDigit(body[Len(body)])
                  /\ \A i \in 1..Len(body) : IsDigit(body[i]) \/ body[i] = "_"
                  /\ \A i \in 1..(Len(body) - 1) : ~(body[i] = "_" /\ body[i + 1] = "_")
        n      == DigitsVal(DropUnderscores(body))
    IN  [ok  |-> ok,
         val |-> IF ~ok THEN 0
                 ELSE IF signed /\ Head(t) = "-" THEN 0 - n
                 ELSE n]

\* is_int as str.isdigit() would give it: a signed number is not an integer
is_int_digits_only(s) == s # <<>> /\ \A i \in 1..Len(s) : IsDigit(s[i])

is_int(s) == ParseInt(s).ok

----------------------------------------------------------------------------
(* difflib.SequenceMatcher(None, a, b).ratio()                             *)

\* length of the common run a[i..], b[j..] inside a[..ahi], b[..bhi]
RECURSIVE RunLen(_, _, _, _, _, _)
RunLen(a, b, i, j, ahi, bhi) ==
    IF i > ahi \/ j > bhi \/ a[i] # b[j] THEN 0
    ELSE 1 + RunLen(a, b, i + 1, j + 1, ahi, bhi)

\* find_longest_match: the longest block, earliest in a, then earliest in b
FindLongestMatch(a, b, alo, ahi, blo, bhi) ==
    LET starts == (alo..ahi) \X (blo..bhi)
        len(p) == RunLen(a, b, p[1], p[2], ahi, bhi)
        best   == CHOOSE p \in starts :
                     \A r \in starts :
                        \/ len(p) > len(r)
                        \/ /\ len(p) = len(r)
                           /\ \/ p[1] < r[1]
                              \/ p[1] = r[1] /\ p[2] <= r[2]
    IN  IF starts = {} THEN [i |-> alo, j |-> blo, k |-> 0]
        ELSE [i |-> best[1], j |-> best[2], k |-> len(best)]

\* get_matching_blocks: total size of the blocks found left and right of the
\* longest one, recursively
RECURSIVE MatchTotal(_, _, _, _, _, _)
MatchTotal(a, b, alo, ahi, blo, bhi) ==
    LET m == FindLongestMatch(a, b, alo, ahi, blo, bhi)
    IN  IF m.k = 0 THEN 0
        ELSE m.k
             + (IF alo < m.i /\ blo < m.j
                THEN MatchTotal(a, b, alo, m.i - 1, blo, m.j - 1) ELSE 0)
             + (IF m.i + m.k <= ahi /\ m.j + m.k <= bhi
                THEN MatchTotal(a, b, m.i + m.k, ahi, m.j + m.k, bhi) ELSE 0)

\* ratio() = 2.0 * matches / (len(a) + len(b)), 1.0 for two empty strings;
\* kept as the fraction num/den
Ratio(a, b) ==
    LET length == Len(a) + Len(b)
    IN  IF length = 0 THEN [num |-> 1, den |-> 1]
        ELSE [num |-> 2 * MatchTotal(a, b, 1, Len(a), 1, Len(b)), den |-> length]

similarity(a, b) == Ratio(Lower(a), Lower(b))

RatioLess(x, y) == x.num * y.den < y.num * x.den
RatioEq(x, y)   == x.num * y.den = y.num * x.den

----------------------------------------------------------------------------
(* The orgs table and fetch_org_candidates                                 *)

StoreLimit == 200

\* a row of .select("organization_id, organization_name, org_city, org_state")
Org(id, name) ==
    [organization_id |-> id, organization_name |-> name,
     org_city |-> Null, org_state |-> Null]

\* LIKE '%a%' on b: a occurs in b as a contiguous block, "_" in a standing
\* for any one character
LikeContains(b, a) ==
    \E k \in 0..(Len(b) - Len(a)) :
        \A i \in 1..Len(a) : a[i] = "_" \/ a[i] = b[k + i]

\* .ilike("organization_name", "%query%"): case-insensitive LIKE; a NULL
\* name matches nothing
ILike(name, query) == ~name.isnull /\ LikeContains(Lower(name.s), Lower(query))

\* .eq("organization_id", n).execute().data
StoreById(rows, n) == SelectSeq(rows, LAMBDA o : o.organization_id = n)

\* .ilike(...).limit(200).execute().data
StoreByName(rows, query) ==
    LET hit == SelectSeq(rows, LAMBDA o : ILike(o.organization_name, query))
    IN  SubSeq(hit, 1, Min(StoreLimit, Len(hit)))

\* the sort key of line 117-120: (-similarity, len(name))
SortKey(query, o) ==
    [sim |-> similarity(query, OrEmpty(o.organization_name)),
     len |-> Len(OrEmpty(o.organization_name))]

\* the key without the minus sign: least similar first
KeyLessAscending(k1, k2) ==
    \/ RatioLess(k1.sim, k2.sim)
    \/ RatioEq(k1.sim, k2.sim) /\ k1.len < k2.len

\* tuple comparison of two keys: k1 < k2
KeyLess(k1, k2) ==
    \/ RatioLess(k2.sim, k1.sim)
    \/ RatioEq(k1.sim, k2.sim) /\ k1.len < k2.len

\* insert index x into the sorted index list s, after every element whose
\* key is not greater (stable)
RECURSIVE InsertStable(_, _, _)
InsertStable(keys, s, x) ==
    IF s = <<>> THEN <<x>>
    ELSE IF KeyLess(keys[x], keys[Head(s)]) THEN <<x>> \o s
    ELSE <<Head(s)>> \o InsertStable(keys, Tail(s), x)

RECURSIVE SortIdx(_, _)
SortIdx(keys, n) ==
    IF n = 0 THEN <<>> ELSE InsertStable(keys, SortIdx(keys, n - 1), n)

\* rows.sort(key=...): list.sort is stable, each key computed once
SortRows(query, rows) ==
    LET keys == [i \in 1..Len(rows) |-> SortKey(query, rows[i])]
        idx  == SortIdx(keys, Len(rows))
    IN  [i \in 1..Len(rows) |-> rows[idx[i]]]

\* the body of fetch_org_candidates; up = the store answers.  raised = the
\* client's exception leaves the function
fetch_org_candidates(query0, rows, up) ==
    LET query == Strip(query0)
    IN  IF query = <<>> THEN [raised |-> FALSE, rows |-> <<>>]
        ELSE IF ~up THEN [raised |-> TRUE, rows |-> <<>>]
        ELSE IF is_int(query)
             THEN [raised |-> FALSE, rows |-> StoreById(rows, ParseInt(query).val)]
        ELSE [raised |-> FALSE, rows |-> SortRows(query, StoreByName(rows, query))]

----------------------------------------------------------------------------
(* Values the variables of a specification hold while it is not the one    *)
(* being run                                                               *)

NoView == [outcome |-> "init", passed_gate |-> FALSE, store_queried |-> FALSE,
           page |-> 0, total_pages |-> 0, start |-> 0, end |-> 0,
           page_rows |-> <<>>]

SessionOff ==
    /\ APP_PASSWORD = <<>> /\ sb_configured = FALSE
    /\ authed = "absent" /\ org_results = <<>> /\ org_page = 0
    /\ searched_query = <<>> /\ cache = {} /\ view = NoView
    /\ last_fetch = "none"

NoFetch == [called |-> FALSE, raised |-> FALSE, rows |-> <<>>]
FetchOff == f_query = <<>> /\ f_out = NoFetch

NoPage == [done |-> FALSE, requested |-> 0, total_pages |-> 0, page |-> 0,
           start |-> 0, end |-> 0, page_rows |-> <<>>]
PaginateOff == p_items = <<>> /\ p_size = 1 /\ p_req = 0 /\ p_out = NoPage

NoFilter == [called |-> FALSE, status_choice |-> "All", event_choice |-> "All",
             out |-> <<>>]
FilterOff == d = <<>> /\ flt = NoFilter

NoDate == [y |-> 0, m |-> 0, d |-> 0]
NoInsights ==
    [outcome |-> "init", status_choice |-> "All", event_choice |-> "All",
     count_2025 |-> 0, count_2026 |-> 0, yoy_delta |-> 0,
     cutoff_2025 |-> NoDate, ytd_2025 |-> 0, ytd_2026 |-> 0, ytd_delta |-> 0]
InsightsOff == data = <<>> /\ today = NoDate /\ ins = NoInsights

----------------------------------------------------------------------------
(* SpecFetch: fetch_org_candidates on drawn stores and queries             *)

MaxStoreRows == 3

Canes         == <<"C", "a", "n", "e", "s">>
CanesBaseball == <<"C", "a", "n", "e", "s", " ", "B", "a", "s", "e", "b", "a", "l", "l">>

OrgUniverse ==
    { Org(12, Text(Canes)),
      Org(2,  Text(CanesBaseball)),
      Org(3,  Text(<<"c", "a", "n", "e", "s">>)),
      Org(4,  Text(<<"a", "1", "2">>)),
      Org(5,  Null),
      Org(6,  Text(<<"N", "e", "c", "a">>)) }

\* the orders in which a store holding at most MaxStoreRows of the orgs can
\* return them; organization_id is the table's primary key
FetchStores ==
    UNION { { s \in [1..k -> OrgUniverse] :
                \A i, j \in 1..k : i # j => s[i] # s[j] } : k \in 0..MaxStoreRows }

FetchQueries ==
    { <<>>, <<" ">>, Canes, <<" ", "c", "a", "n", "e", "s", " ">>,
      <<"n", "e">>, <<"a">>, <<"c", "a">>, <<"x">>,
      <<"1", "2">>, <<"+", "1", "2">>, <<"1", "_", "2">>, <<"-", "1">>, <<"2", " ">>,
      <<"a", "1">>, <<"1", "_">> }

FetchInit ==
    /\ store \in FetchStores
    /\ FetchOff /\ SessionOff /\ PaginateOff /\ FilterOff /\ InsightsOff

FetchCall(q, up) ==
    /\ f_query' = q
    /\ f_out' = [called |-> TRUE,
                 raised |-> fetch_org_candidates(q, store, up).raised,
                 rows   |-> fetch_org_candidates(q, store, up).rows]
    /\ UNCHANGED <<sessionVars, store, paginateVars, filterVars, insightsVars>>

FetchNext == \E q \in FetchQueries, up \in BOOLEAN : FetchCall(q, up)

SpecFetch == FetchInit /\ [][FetchNext]_vars

(* Claims on fetch_org_candidates, checked under SpecFetch                 *)

Returned  == f_out.called /\ ~f_out.raised
IntQuery  == Strip(f_query) # <<>> /\ ParseInt(Strip(f_query)).ok
NameQuery == Strip(f_query) # <<>> /\ ~ParseInt(Strip(f_query)).ok

NameOf(o) == OrEmpty(o.organization_name)

Orderings(s) ==
    { p \in [1..Len(s) -> 1..Len(s)] : \A i, j \in 1..Len(s) : i # j => p[i] # p[j] }

\* C4: for a name query the output does not depend on the order in which the
\* store returned the candidates: every reordering of the store's rows gives
\* the same output sequence.
C4_OrderIndependent ==
    (Returned /\ NameQuery) =>
        \A p \in Orderings(store) :
            fetch_org_candidates(f_query, [i \in 1..Len(store) |-> store[p[i]]], TRUE).rows
                = f_out.rows

----------------------------------------------------------------------------
(* SpecPaginate: the pagination block, Prev and Next on drawn result lists *)

PAGE_SIZE == 10

MaxItems    == 23
MaxPageSize == 10
MaxReqPage  == 5

\* total_pages with the round-up dropped
PaginateFloor(results, pageSize, page0) ==
    LET total       == Len(results)
        total_pages == Max(1, total \div pageSize)
        page        == Max(0, Min(page0, total_pages - 1))
        start       == page * pageSize
        end         == Min(start + pageSize, total)
    IN  [total_pages |-> total_pages, page |-> page, start |-> start, end |-> end,
         page_rows |-> SubSeq(results, start + 1, end)]

\* total, total_pages, page, start, end, page_rows of lines 240-247;
\* results[start:end] is SubSeq(results, start + 1, end)
Paginate(results, pageSize, page0) ==
    LET total       == Len(results)
        total_pages == Max(1, (total + pageSize - 1) \div pageSize)
        page        == Max(0, Min(page0, total_pages - 1))
        start       == page * pageSize
        end         == Min(start + pageSize, total)
    IN  [total_pages |-> total_pages, page |-> page, start |-> start, end |-> end,
         page_rows |-> SubSeq(results, start + 1, end)]

\* line 252 and line 257
PrevPage(page)              == Max(0, page - 1)
NextPage(page, total_pages) == Min(total_pages - 1, page + 1)

\* one pass over the block with the page index found in the session
PaginatePass(requested) ==
    LET r == Paginate(p_items, p_size, requested)
    IN  /\ p_req' = r.page
        /\ p_out' = [done |-> TRUE, requested |-> requested,
                     total_pages |-> r.total_pages, page |-> r.page,
                     start |-> r.start, end |-> r.end, page_rows |-> r.page_rows]
        /\ UNCHANGED <<p_items, p_size>>
        /\ UNCHANGED <<sessionVars, store, fetchVars, filterVars, insightsVars>>

PaginateInit ==
    /\ p_items \in { [i \in 1..n |-> i] : n \in 0..MaxItems }
    /\ p_size \in 1..MaxPageSize
    /\ p_req \in (0 - 2)..MaxReqPage
    /\ p_out = NoPage
    /\ store = <<>>
    /\ SessionOff /\ FetchOff /\ FilterOff /\ InsightsOff

\* a run with no button pressed
PaginateRun == PaginatePass(p_req)

\* a run with Prev pressed (the button is enabled when page # 0), then the
\* rerun it asks for
PaginatePrev ==
    /\ p_out.done /\ p_out.page # 0
    /\ PaginatePass(PrevPage(Paginate(p_items, p_size, p_req).page))

\* a run with Next pressed (enabled when page < total_pages - 1), then the rerun
PaginateNext ==
    /\ p_out.done /\ p_out.page < p_out.total_pages - 1
    /\ LET r == Paginate(p_items, p_size, p_req)
       IN  PaginatePass(NextPage(r.page, r.total_pages))

PaginateStep == PaginateRun \/ PaginatePrev \/ PaginateNext

SpecPaginate == PaginateInit /\ [][PaginateStep]_vars

\* C3: total_pages = max(1, ceil(len/pageSize)), the page index is the
\* requested one clamped into [0, total_pages - 1] and is what the session
\* keeps, and the rows shown are items[page*pageSize : min(len, (page+1)*pageSize)];
\* 23 items, page size 10, requested page 5 give page 2 of 3 and the last
\* three items.
C3_PaginationClamped ==
    p_out.done =>
        LET n    == Len(p_items)
            ceil == CHOOSE t \in 0..n :
                       t * p_size >= n /\ (t = 0 \/ (t - 1) * p_size < n)
            tp   == IF ceil > 1 THEN ceil ELSE 1
            pg   == IF p_out.requested < 0 THEN 0
                    ELSE IF p_out.requested > tp - 1 THEN tp - 1
                    ELSE p_out.requested
            lo   == pg * p_size
            hi   == IF (pg + 1) * p_size < n THEN (pg + 1) * p_size ELSE n
        IN  /\ p_out.total_pages = tp
            /\ p_out.page = pg /\ p_req = pg
            /\ 0 <= p_out.page /\ p_out.page <= p_out.total_pages - 1
            /\ Len(p_out.page_rows) = hi - lo
            /\ \A i \in 1..(hi - lo) : p_out.page_rows[i] = p_items[lo + i]
            /\ (n = 23 /\ p_size = 10 /\ p_out.requested = 5) =>
                  /\ p_out.page = 2 /\ p_out.total_pages = 3
                  /\ p_out.page_rows = <<21, 22, 23>>

C3_Witness ==
    /\ p_out.done /\ Len(p_items) = 23 /\ p_size = 10 /\ p_out.requested = 5
    /\ p_out.page_rows = <<21, 22, 23>>

----------------------------------------------------------------------------
(* Rows of the requests table                                              *)

\* a nullable column holding a label (registration_status, event_name)
NullStr  == [isnull |-> TRUE, s |-> ""]
Label(x) == [isnull |-> FALSE, s |-> x]

\* start_date_calendar_year as the store sends it: a number, text, or null
YearInt(n)  == [t |-> "int", n |-> n, s |-> <<>>]
YearText(x) == [t |-> "str", n |-> 0, s |-> x]
YearNull    == [t |-> "null", n |-> 0, s |-> <<>>]

Req(year, requested, status, event) ==
    [start_date_calendar_year |-> year, date_requested |-> requested,
     registration_status |-> status, event_name |-> event]

D_2025_02_28 == <<"2", "0", "2", "5", "-", "0", "2", "-", "2", "8">>
D_2025_02_30 == <<"2", "0", "2", "5", "-", "0", "2", "-", "3", "0">>
D_2025_03_01 == <<"2", "0", "2", "5", "-", "0", "3", "-", "0", "1">>
D_2025_03_15 == <<"2", "0", "2", "5", "-", "0", "3", "-", "1", "5">>
D_2025_08_01 == <<"2", "0", "2", "5", "-", "0", "8", "-", "0", "1">>
D_2026_03_01 == <<"2", "0", "2", "6", "-", "0", "3", "-", "0", "1">>

RequestUniverse ==
    { Req(YearInt(2025), Text(D_2025_03_01), Label("approved"), Label("WS")),
      Req(YearInt(2025), Text(D_2025_08_01), Label("Approved"), Label("WS")),
      Req(YearInt(2026), Text(D_2026_03_01), Label("approved"), Label("Fall")),
      Req(YearText(<<"2", "0", "2", "5">>), Text(D_2025_02_28), Label("pending"), Label("Fall")),
      Req(YearNull, Null, NullStr, Label("WS")),
      Req(YearInt(2026), Null, Label("approved"), NullStr),
      Req(YearText(<<"x">>), Text(D_2025_02_30), Label("All"), Label("ws")),
      Req(YearInt(2025), Text(D_2025_03_15), Label("approved"), Label("Fall")) }

MaxRequests == 3

RequestLists == UNION { [1..k -> RequestUniverse] : k \in 0..MaxRequests }

----------------------------------------------------------------------------
(* SpecFilter: apply_dropdown_filters on drawn request lists and choices   *)

\* the event facet forgotten
apply_status_filter_only(rows, status_choice, event_choice) ==
    IF status_choice # "All"
    THEN SelectSeq(rows, LAMBDA r : ~r.registration_status.isnull
                                     /\ r.registration_status.s = status_choice)
    ELSE rows

\* out = d.copy(), then one boolean mask per facet that is not "All"; a null
\* cell compares unequal to every choice
apply_dropdown_filters(rows, status_choice, event_choice) ==
    LET out0 == rows
        out1 == IF status_choice # "All"
                THEN SelectSeq(out0, LAMBDA r : ~r.registration_status.isnull
                                                 /\ r.registration_status.s = status_choice)
                ELSE out0
        out2 == IF event_choice # "All"
                THEN SelectSeq(out1, LAMBDA r : ~r.event_name.isnull
                                                 /\ r.event_name.s = event_choice)
                ELSE out1
    IN  out2

StatusChoices == {"All", "approved", "Approved", "pending", "denied"}
EventChoices  == {"All", "WS", "ws", "Fall", "Spring"}

FilterInit ==
    /\ d \in RequestLists
    /\ flt = NoFilter
    /\ store = <<>>
    /\ SessionOff /\ FetchOff /\ PaginateOff /\ InsightsOff

FilterCall(sc, ec) ==
    /\ flt' = [called |-> TRUE, status_choice |-> sc, event_choice |-> ec,
               out |-> apply_dropdown_filters(d, sc, ec)]
    /\ UNCHANGED d
    /\ UNCHANGED <<sessionVars, store, fetchVars, paginateVars, insightsVars>>

FilterNext == \E sc \in StatusChoices, ec \in EventChoices : FilterCall(sc, ec)

SpecFilter == FilterInit /\ [][FilterNext]_vars

Keeps(r, sc, ec) ==
    /\ sc = "All" \/ (~r.registration_status.isnull /\ r.registration_status.s = sc)
    /\ ec = "All" \/ (~r.event_name.isnull /\ r.event_name.s = ec)

\* C8: the filter returns exactly the requests, in their order, whose status
\* equals the status choice (unless "All") and whose event equals the event
\* choice (unless "All"), by exact equality; "All"/"All" returns the input,
\* an empty input gives an empty output, and filtering the output again with
\* the same choices changes nothing.
C8_FilterExactSubsequence ==
    flt.called =>
        LET sc == flt.status_choice
            ec == flt.event_choice
            kept == { i \in 1..Len(d) : Keeps(d[i], sc, ec) }
        IN  /\ Len(flt.out) = Cardinality(kept)
            /\ \A k \in 1..Len(flt.out) :
                  \E i \in kept :
                     /\ flt.out[k] = d[i]
                     /\ Cardinality({j \in kept : j < i}) = k - 1
            /\ (sc = "All" /\ ec = "All") => flt.out = d
            /\ d = <<>> => flt.out = <<>>
            /\ apply_dropdown_filters(flt.out, sc, ec) = flt.out

C8_Witness ==
    /\ flt.called /\ flt.status_choice = "approved" /\ flt.event_choice = "WS"
    /\ Len(d) = 3 /\ Len(flt.out) = 1
    /\ \E i \in 1..Len(d) : ~d[i].registration_status.isnull
                            /\ d[i].registration_status.s = "Approved"

----------------------------------------------------------------------------
(* SpecInsights: render_org_insights of app.py on drawn requests and dates *)

PriorYear   == 2025
CurrentYear == 2026

Date(y, m, dd) == [y |-> y, m |-> m, d |-> dd]

IsLeap(y) == (y % 4 = 0 /\ y % 100 # 0) \/ y % 400 = 0

DaysInMonth(y, m) ==
    IF m = 2 THEN (IF IsLeap(y) THEN 29 ELSE 28)
    ELSE IF m \in {4, 6, 9, 11} THEN 30 ELSE 31

\* datetime.date(y, m, d) raises ValueError unless this holds
DateValid(y, m, dd) == m \in 1..12 /\ dd >= 1 /\ dd <= DaysInMonth(y, m)

\* a <= b on datetime.date
DateLE(a, b) ==
    \/ a.y < b.y
    \/ a.y = b.y /\ a.m < b.m
    \/ a.y = b.y /\ a.m = b.m /\ a.d <= b.d

\* pd.to_numeric(..., errors="coerce"): a number stays, numeric text is
\* parsed, anything else becomes NaN
ToNumeric(v) ==
    IF v.t = "int" THEN [nan |-> FALSE, n |-> v.n]
    ELSE IF v.t = "str" /\ ParseInt(v.s).ok THEN [nan |-> FALSE, n |-> ParseInt(v.s).val]
    ELSE [nan |-> TRUE, n |-> 0]

\* pd.to_datetime(..., errors="coerce").dt.date on YYYY-MM-DD text: a date,
\* or NaT for null, malformed text and days that do not exist
ToDate(v) ==
    LET s      == v.s
        shaped == /\ ~v.isnull /\ Len(s) = 10 /\ s[5] = "-" /\ s[8] = "-"
                  /\ \A i \in {1, 2, 3, 4, 6, 7, 9, 10} : IsDigit(s[i])
        y      == DigitsVal(SubSeq(s, 1, 4))
        m      == DigitsVal(SubSeq(s, 6, 7))
        dd     == DigitsVal(SubSeq(s, 9, 10))
    IN  IF shaped /\ DateValid(y, m, dd)
        THEN [nat |-> FALSE, date |-> Date(y, m, dd)]
        ELSE [nat |-> TRUE, date |-> NoDate]

\* lines 154-156: the coerced frame
Coerce(rows) ==
    [i \in 1..Len(rows) |->
        [start_date_calendar_year |-> ToNumeric(rows[i].start_date_calendar_year),
         date_requested           |-> ToDate(rows[i].date_requested),
         registration_status      |-> rows[i].registration_status,
         event_name               |-> rows[i].event_name]]

\* with_all(df[col].dropna().unique()): the choices offered, as a set
with_all(options) == {"All"} \cup {o \in options : o \notin {"", "nan"}}

StatusOptions(rows) ==
    with_all({rows[i].registration_status.s :
                i \in {j \in 1..Len(rows) : ~rows[j].registration_status.isnull}})
EventOptions(rows) ==
    with_all({rows[i].event_name.s :
                i \in {j \in 1..Len(rows) : ~rows[j].event_name.isnull}})

YearIs(r, y) == ~r.start_date_calendar_year.nan /\ r.start_date_calendar_year.n = y

\* date_requested.notna() & (date_requested <= cutoff)
RequestedBy(r, cutoff) == ~r.date_requested.nat /\ DateLE(r.date_requested.date, cutoff)

\* render_org_insights, lines 137-191.  "ValueError": date(2025, month, day)
\* raised on line 179, before any metric is drawn
render_org_insights(rows, t, status_choice, event_choice) ==
    IF rows = <<>> THEN [NoInsights EXCEPT !.outcome = "no_requests"]
    ELSE
    LET df          == apply_dropdown_filters(Coerce(rows), status_choice, event_choice)
        df_2025     == SelectSeq(df, LAMBDA r : YearIs(r, PriorYear))
        df_2026     == SelectSeq(df, LAMBDA r : YearIs(r, CurrentYear))
        count_2025  == Len(df_2025)
        count_2026  == Len(df_2026)
        yoy_delta   == count_2026 - count_2025
        cutoff_2025 == Date(PriorYear, t.m, t.d)
        df_2025_ytd == SelectSeq(df_2025, LAMBDA r : RequestedBy(r, cutoff_2025))
        df_2026_ytd == SelectSeq(df_2026, LAMBDA r : RequestedBy(r, t))
        ytd_delta   == Len(df_2026_ytd) - Len(df_2025_ytd)
    IN  IF ~DateValid(PriorYear, t.m, t.d)
        THEN [NoInsights EXCEPT !.outcome = "ValueError",
                                !.status_choice = status_choice,
                                !.event_choice = event_choice]
        ELSE [outcome |-> "metrics",
              status_choice |-> status_choice, event_choice |-> event_choice,
              count_2025 |-> count_2025, count_2026 |-> count_2026,
              yoy_delta |-> yoy_delta, cutoff_2025 |-> cutoff_2025,
              ytd_2025 |-> Len(df_2025_ytd), ytd_2026 |-> Len(df_2026_ytd),
              ytd_delta |-> ytd_delta]

\* date.today() on the days the page is opened
Todays ==
    { Date(2026, 3, 15), Date(2026, 2, 28), Date(2026, 12, 31),
      Date(2027, 1, 1), Date(2028, 2, 29) }

InsightsInit ==
    /\ data \in RequestLists
    /\ today \in Todays
    /\ ins = NoInsights
    /\ store = <<>>
    /\ SessionOff /\ FetchOff /\ PaginateOff /\ FilterOff

\* one run of the page with the two select boxes at sc and ec
Render(sc, ec) ==
    /\ ins' = render_org_insights(data, today, sc, ec)
    /\ UNCHANGED <<data, today>>
    /\ UNCHANGED <<sessionVars, store, fetchVars, paginateVars, filterVars>>

InsightsNext ==
    \E sc \in StatusOptions(Coerce(data)), ec \in EventOptions(Coerce(data)) : Render(sc, ec)

SpecInsights == InsightsInit /\ [][InsightsNext]_vars

Rendered == ins.outcome \notin {"init", "no_requests"}

\* the requests the aggregation is given: the coerced rows the two choices keep
Aggregated ==
    LET df == Coerce(data)
    IN  SelectSeq(df, LAMBDA r : Keeps(r, ins.status_choice, ins.event_choice))

\* C1: on Feb 29 with a non-leap prior year the cutoff is Feb 28 of the prior
\* year and the aggregation completes with counts and deltas instead of
\* raising.
C1_Feb29FallsBackToFeb28 ==
    (Rendered /\ today.m = 2 /\ today.d = 29 /\ ~IsLeap(PriorYear)) =>
        /\ ins.outcome = "metrics"
        /\ ins.cutoff_2025 = Date(PriorYear, 2, 28)

\* C7: for every request list and every today, the full-year count of a year
\* is the number of requests of that calendar year, its YTD count the number
\* of those requested on or before the cutoff (the prior year's is today's
\* month and day in the prior year, the current year's is today), and the
\* deltas are current minus prior.
C7_CountsAndDeltas ==
    Rendered =>
        LET rows   == Aggregated
            cutoff == IF DateValid(PriorYear, today.m, today.d)
                      THEN Date(PriorYear, today.m, today.d)
                      ELSE Date(PriorYear, 2, 28)
            idx    == 1..Len(rows)
            full25 == Cardinality({i \in idx : YearIs(rows[i], PriorYear)})
            full26 == Cardinality({i \in idx : YearIs(rows[i], CurrentYear)})
            ytd25  == Cardinality({i \in idx : /\ YearIs(rows[i], PriorYear)
                                               /\ RequestedBy(rows[i], cutoff)})
            ytd26  == Cardinality({i \in idx : /\ YearIs(rows[i], CurrentYear)
                                               /\ RequestedBy(rows[i], today)})
        IN  /\ ins.outcome = "metrics"
            /\ ins.count_2025 = full25 /\ ins.count_2026 = full26
            /\ ins.ytd_2025 = ytd25 /\ ins.ytd_2026 = ytd26
            /\ ins.yoy_delta = full26 - full25
            /\ ins.ytd_delta = ytd26 - ytd25

----------------------------------------------------------------------------
(* Spec: the search page session, individual_search.py lines 10-261        *)

NumOrgs == 14

SessionNames ==
    << Text(Canes), Text(CanesBaseball), Text(<<"c", "a", "b">>), Text(<<"A", "b">>),
       Null, Text(<<"b", "a", "n">>), Text(<<"a", "1", "2">>) >>

\* the orgs table during the session
SessionStore ==
    [i \in 1..NumOrgs |-> Org(i, SessionNames[(i % Len(SessionNames)) + 1])]

Secret == <<"s", "3">>

\* what can be typed into the text box and the password box
SessionQueries ==
    { <<>>, <<" ", "a">>, <<"c", "a", "n">>, <<"1", "2">>, <<"9", "9">>, <<"z">> }
Passwords == { Secret, <<"s">>, <<>> }

\* the one element of a singleton: Only({F(x) : x \in {e}}) is F(e) with e
\* evaluated once
Only(S) == CHOOSE x \in S : TRUE

\* @st.cache_data(ttl=60) around fetch_org_candidates: a hit answers without
\* the store, a return is kept, an exception is not
FetchCached(entries, query, up) ==
    IF \E e \in entries : e.query = query
    THEN [raised |-> FALSE, rows |-> (CHOOSE e \in entries : e.query = query).rows,
          cache |-> entries, store_queried |-> FALSE]
    ELSE Only({ [raised |-> r.raised, rows |-> r.rows,
                 cache |-> IF r.raised THEN entries
                           ELSE entries \cup {[query |-> query, rows |-> r.rows]},
                 store_queried |-> Strip(query) # <<>>]
                : r \in {fetch_org_candidates(query, store, up)} })

Session(a, res, pg, sq, c, lf, v) ==
    [authed |-> a, org_results |-> res, org_page |-> pg, searched_query |-> sq,
     cache |-> c, last_fetch |-> lf, view |-> v]

Stopped(outcome, passed) == [NoView EXCEPT !.outcome = outcome, !.passed_gate = passed]

\* lines 229-261 with no button pressed: the two early stops, then the
\* pagination block, which writes the clamped page back
ShowResults(s, queried) ==
    LET results == s.org_results
        r       == Paginate(results, PAGE_SIZE, s.org_page)
    IN  IF s.searched_query # <<>> /\ results = <<>>
        THEN [s EXCEPT !.view = [Stopped("no_orgs", TRUE) EXCEPT !.store_queried = queried]]
        ELSE IF results = <<>>
        THEN [s EXCEPT !.view = [Stopped("type_query", TRUE) EXCEPT !.store_queried = queried]]
        ELSE [s EXCEPT !.org_page = r.page,
                       !.view = [outcome |-> "page", passed_gate |-> TRUE,
                                 store_queried |-> queried,
                                 page |-> r.page, total_pages |-> r.total_pages,
                                 start |-> r.start, end |-> r.end,
                                 page_rows |-> r.page_rows]]

\* lines 37-43 without a Login press: TRUE when the run goes on past the gate
GateOpen(s) == APP_PASSWORD = <<>> \/ s.authed = "True"

\* the flag after line 38-39
GateInit(s) ==
    IF APP_PASSWORD # <<>> /\ s.authed = "absent" THEN [s EXCEPT !.authed = "False"] ELSE s

\* lines 223-227 once fetch_org_candidates has ended as f, then lines 229-261
AfterFetch(s, sq, f) ==
    LET s1 == [s EXCEPT !.searched_query = sq]
    IN  IF f.raised
        THEN [s1 EXCEPT !.last_fetch = "raised",
                        !.view = [Stopped("exception", TRUE) EXCEPT !.store_queried = TRUE]]
        ELSE ShowResults([s1 EXCEPT !.org_results = f.rows, !.org_page = 0,
                                    !.cache = f.cache, !.last_fetch = "returned"],
                         f.store_queried)

\* lines 249-259 on the page just shown: a pressed Prev or Next moves the page
\* and ends in st.rerun(), a second run with no button
AfterButtons(shown, click) ==
    IF shown.view.outcome # "page" THEN shown
    ELSE IF click = "prev" /\ shown.view.page # 0
    THEN ShowResults([shown EXCEPT !.org_page = PrevPage(shown.view.page)], FALSE)
    ELSE IF click = "next" /\ shown.view.page < shown.view.total_pages - 1
    THEN ShowResults([shown EXCEPT !.org_page =
                         NextPage(shown.view.page, shown.view.total_pages)], FALSE)
    ELSE shown

\* one run of the script past the gate; click is "none", "search", "prev" or
\* "next"
AfterGate(s, click, q, up) ==
    IF ~sb_configured THEN [s EXCEPT !.view = Stopped("sb_missing", TRUE)]
    ELSE IF click = "search"
    THEN Only({ AfterFetch(s, Strip(q), f) : f \in {FetchCached(s.cache, Strip(q), up)} })
    ELSE Only({ AfterButtons(shown, click) : shown \in {ShowResults(s, FALSE)} })

\* one run of the script; click may also be "login" with pw typed
ScriptRun(s0, click, q, pw, up) ==
    LET s == GateInit(s0)
    IN  IF GateOpen(s) THEN AfterGate(s, click, q, up)
        ELSE IF click = "login" /\ pw = APP_PASSWORD
        THEN AfterGate([s EXCEPT !.authed = "True"], "none", q, up)
        ELSE IF click = "login"
        THEN [s EXCEPT !.view = Stopped("wrong_password", FALSE)]
        ELSE [s EXCEPT !.view = Stopped("sign_in", FALSE)]

Now == Session(authed, org_results, org_page, searched_query, cache, last_fetch, view)

Becomes(s) ==
    /\ authed' = s.authed /\ org_results' = s.org_results /\ org_page' = s.org_page
    /\ searched_query' = s.searched_query /\ cache' = s.cache
    /\ last_fetch' = s.last_fetch /\ view' = s.view
    /\ UNCHANGED <<APP_PASSWORD, sb_configured, store>>
    /\ UNCHANGED <<fetchVars, paginateVars, filterVars, insightsVars>>

\* before the first run; the session keys hold what lines 205-210 give them
\* when first reached, nothing reads them earlier
Init ==
    /\ APP_PASSWORD \in {<<>>, Secret}
    /\ sb_configured \in BOOLEAN
    /\ store = SessionStore
    /\ authed = "absent" /\ org_results = <<>> /\ org_page = 0
    /\ searched_query = <<>> /\ cache = {} /\ view = NoView
    /\ last_fetch = "none"
    /\ FetchOff /\ PaginateOff /\ FilterOff /\ InsightsOff

SearchShown == view.outcome \in {"exception", "no_orgs", "type_query", "page"}

\* the page is loaded, or a widget other than a button changed
Rerun == \E s \in {ScriptRun(Now, "none", <<>>, <<>>, TRUE)} : Becomes(s)

Login(pw) ==
    /\ view.outcome \in {"sign_in", "wrong_password"}
    /\ \E s \in {ScriptRun(Now, "login", <<>>, pw, TRUE)} : Becomes(s)

Search(q, up) ==
    /\ SearchShown
    /\ \E s \in {ScriptRun(Now, "search", q, <<>>, up)} : Becomes(s)

PrevButton ==
    /\ view.outcome = "page" /\ view.page # 0
    /\ \E s \in {ScriptRun(Now, "prev", <<>>, <<>>, TRUE)} : Becomes(s)

NextButton ==
    /\ view.outcome = "page" /\ view.page < view.total_pages - 1
    /\ \E s \in {ScriptRun(Now, "next", <<>>, <<>>, TRUE)} : Becomes(s)

\* the ttl of a cache entry runs out
Expire ==
    /\ \E e \in cache : cache' = cache \ {e}
    /\ UNCHANGED <<APP_PASSWORD, sb_configured, store, authed, org_results, org_page,
                   searched_query, view, last_fetch>>
    /\ UNCHANGED <<fetchVars, paginateVars, filterVars, insightsVars>>

Next ==
    \/ Rerun
    \/ \E pw \in Passwords : Login(pw)
    \/ \E q \in SessionQueries, up \in BOOLEAN : Search(q, up)
    \/ PrevButton
    \/ NextButton
    \/ Expire

Spec == Init /\ [][Next]_vars

\* C2: a Search whose store call fails ends as an error and is never shown
\* as "No orgs found.", neither by the failing run nor by a later rerun, for
\* the query whose fetch failed.
C2_FailureNeverShownAsNoOrgs ==
    last_fetch = "raised" => view.outcome # "no_orgs"

\* C9: nothing after the gate runs, and no store query is made, unless the
\* session's authed flag is true, which only a Login with the configured
\* password makes it.
C9_NothingRunsUnauthorized ==
    (view.passed_gate \/ view.store_queried) => authed = "True"

\* C10: the stored org_results is what fetch_org_candidates produces for the
\* stored searched_query, after any sequence of runs, failed Searches
\* included.
C10_ResultsBelongToSearchedQuery ==
    org_results = fetch_org_candidates(searched_query, store, TRUE).rows

====
